---- MODULE Spec2Model ----
(***************************************************************************)
(* A model of python/ee/__init__.py: the library's bootstrap (Initialize,  *)
(* Reset), the generated classes, the Algorithms namespace of unbound      *)
(* algorithms and the argument promoter _Promote.                          *)
(*                                                                         *)
(* An algorithm name is the sequence of its dot-separated segments:        *)
(* "Foo.bar" is <<"Foo", "bar">>.  A catalog (ApiFunction's registry) is a *)
(* function from names to signatures [returns, hidden], the two signature  *)
(* fields this file reads.                                                 *)
(***************************************************************************)
EXTENDS Integers, Sequences, FiniteSets, TLC

VARIABLES
  data,              \* the backend module's state: [initialized]
  api,               \* ApiFunction's registry: name -> signature
  claimed,           \* names some class has imported (not unbound any more)
  members,           \* class name -> names imported into it as members
  globalsNames,      \* the names bound in this module's globals()
  generatedClasses,  \* _generatedClasses (its names are distinct: a set)
  Algorithms,        \* the Algorithms namespace: path -> node
  initErr,           \* the last Initialize raised before it finished
  ops,               \* history: the operations run so far, "I" or "R"
  preGlobals,        \* history: globals() when the last Initialize began
  dropped,           \* history: the classes the last Reset removed
  hasDateutil,       \* environment: the dateutil package can be imported
  pcall,             \* the last _Promote call and its result
  ccall              \* the last generated-class constructor call

vars == <<data, api, claimed, members, globalsNames, generatedClasses,
          Algorithms, initErr, ops, preGlobals, dropped, hasDateutil,
          pcall, ccall>>

(***************************************************************************)
(* Bounds.                                                                 *)
(***************************************************************************)
MaxCatalog == 2   \* entries of a catalog
MaxReinit == 0    \* entries of a catalog fetched without a Reset before
MaxOps == 3       \* operations in a run
MaxArgs == 2      \* arguments of a constructor call

(***************************************************************************)
(* Names.                                                                  *)
(***************************************************************************)
Root(n) == n[1]

\* '.' in name
Dotted(n) == Len(n) > 1

\* len() of one segment
SegLen(s) ==
  CASE s = "Foo" -> 3 [] s = "bar" -> 3 [] s = "make" -> 4 [] s = "ns" -> 2
    [] s = "op" -> 2 [] s = "sub" -> 3 [] s = "get" -> 3
    [] s = "Algorithms" -> 10 [] s = "List" -> 4 [] s = "Image" -> 5
    [] s = "ErrorMargin" -> 11 [] s = "Feature" -> 7
    [] s = "Collection" -> 10 [] s = "geometry" -> 8
    [] s = "Dictionary" -> 10
    [] OTHER -> 1

RECURSIVE StrLen(_)
\* len(name) of the dotted string
StrLen(n) ==
  IF n = <<>> THEN 0
  ELSE IF Len(n) = 1 THEN SegLen(n[1])
  ELSE SegLen(n[1]) + 1 + StrLen(Tail(n))

\* The names the module binds when it is loaded (imports, constants,
\* functions, classes), before any class is generated.
ExistingClassNames ==
  {"ApiFunction", "Collection", "ComputedObject", "CustomFunction",
   "EEException", "Encodable", "Feature", "FeatureCollection", "Filter",
   "Function", "Geometry", "Image", "ImageCollection", "Serializer",
   "String", "_AlgorithmsContainer"}

OtherModuleNames ==
  {"datetime", "numbers", "sys", "oauth2client", "data", "types",
   "OAUTH2_SCOPE", "_generatedClasses", "Algorithms", "Initialize", "Reset",
   "_ResetGeneratedClasses", "ServiceAccountCredentials", "call", "apply",
   "_Promote", "_InitializeUnboundMethods", "_InitializeGeneratedClasses",
   "_MakeClass"}

BaseGlobals == ExistingClassNames \cup OtherModuleNames

\* The classes Initialize and Reset call initialize() and reset() on.
Importers ==
  {"Image", "Feature", "Collection", "ImageCollection", "FeatureCollection",
   "Filter", "Geometry", "String"}

blacklist == {"List"}

\* Attribute names every dict has: normal attribute lookup finds them before
\* _AlgorithmsContainer.__getattr__ is asked.
DictAttrs ==
  {"clear", "copy", "get", "items", "keys", "pop", "update", "values"}

(***************************************************************************)
(* The catalogs the backend may return.                                    *)
(***************************************************************************)
Sig(r, h) == [returns |-> r, hidden |-> h]

Names ==
  {<<"Foo", "bar">>, <<"ns", "op">>, <<"ns">>, <<"ns", "sub", "op">>,
   <<"get">>, <<"get", "op">>, <<"Algorithms", "op">>, <<"List", "op">>,
   <<"Image", "op">>}

Options(n) ==
  CASE n = <<"Foo", "bar">> ->
         {Sig("Foo", FALSE), Sig("Foo", TRUE), Sig("Object", FALSE),
          Sig("Object", TRUE)}
    [] n = <<"ns", "op">> ->
         {Sig("Foo", FALSE), Sig("Foo", TRUE), Sig("Object", FALSE),
          Sig("Object", TRUE)}
    [] n = <<"Algorithms", "op">> -> {Sig("Algorithms", FALSE)}
    [] n = <<"List", "op">> -> {Sig("List", FALSE)}
    [] n = <<"Image", "op">> -> {Sig("Image", FALSE)}
    [] OTHER -> {Sig("Object", FALSE)}

AllSigs == UNION {Options(n) : n \in Names}

CatalogsOn(D) == {c \in [D -> AllSigs] : \A n \in D : c[n] \in Options(n)}

CatalogsUpTo(k) ==
  UNION {CatalogsOn(D) : D \in {E \in SUBSET Names : Cardinality(E) <= k}}

Catalogs == CatalogsUpTo(MaxCatalog)

EmptyMap == [x \in {} |-> x]

(***************************************************************************)
(* ApiFunction, as this file uses it.                                      *)
(***************************************************************************)
\* ApiFunction.allSignatures()
allSignatures(reg) == reg

\* ApiFunction.unboundFunctions(): the entries no class has imported
unboundFunctions(reg, cl) == DOMAIN reg \ cl

\* The names importApi(target, prefix, ...) takes from the registry.
Imported(reg, prefix) == {n \in DOMAIN reg : Dotted(n) /\ Root(n) = prefix}

\* ... and those of them it attaches as members: never a hidden one.
Attached(reg, prefix) == {n \in Imported(reg, prefix) : ~reg[n].hidden}

\* K.initialize() of every hand-written class K: importApi(K, K, K).
InitClasses(reg, mem) ==
  [k \in DOMAIN mem |->
     IF k \in Importers THEN mem[k] \cup Attached(reg, k) ELSE mem[k]]

ClaimedByClasses(reg, ks) == UNION {Imported(reg, k) : k \in ks}

(***************************************************************************)
(* _InitializeGeneratedClasses and _MakeClass.                             *)
(***************************************************************************)
\* names: the first part of any function name that contains a '.'
NamespaceRoots(signatures) ==
  {Root(n) : n \in {m \in DOMAIN signatures : Dotted(m)}}

\* returns: the return types of all functions
ReturnTypes(signatures) == {signatures[n].returns : n \in DOMAIN signatures}

\* Want with the blacklist forgotten.
WantNoBlacklist(signatures, globs) ==
  {name \in NamespaceRoots(signatures) \cap ReturnTypes(signatures) :
     name \notin globs}

\* want = [name for name in names.intersection(returns)
\*         if name not in globals() and name not in blacklist]
Want(signatures, globs) ==
  {name \in NamespaceRoots(signatures) \cap ReturnTypes(signatures) :
     name \notin globs /\ name \notin blacklist}

\* The members of the classes after _MakeClass(name) for every wanted name:
\* a new class, with every name.* algorithm imported into it.
MakeClasses(reg, mem, want) ==
  [k \in DOMAIN mem \cup want |->
     IF k \in want THEN Attached(reg, k) ELSE mem[k]]

(***************************************************************************)
(* The Algorithms namespace.  The tree is a function from attribute paths  *)
(* to nodes; the root container is the empty path.  A node is a container  *)
(* or a bound callable, which carries the name of the algorithm whose      *)
(* signature it was given (sig) and the name of the algorithm its body     *)
(* calls (func).                                                           *)
(***************************************************************************)
ContainerNode == [kind |-> "container", sig |-> <<>>, func |-> <<>>]

\* A callable made in the loop: its body reads the loop variable func when
\* it is called, so until the loop ends its target is not fixed (<<>>).
BoundNode(name) == [kind |-> "bound", sig |-> name, func |-> <<>>]

RootObj == [kind |-> "container", path |-> <<>>]
BuiltinObj == [kind |-> "builtin", path |-> <<>>]
MissingObj == [kind |-> "missing", path |-> <<>>]

IsPrefix(p, q) == Len(p) <= Len(q) /\ SubSeq(q, 1, Len(p)) = p

\* getattr(obj, s): a container answers a dict attribute with the dict's own
\* method and anything else from its items; a callable answers from the
\* attributes set on it; a builtin method has no attribute of ours.
GetAttr(ns, obj, s) ==
  IF obj.kind = "container" /\ s \in DictAttrs THEN BuiltinObj
  ELSE IF obj.kind \in {"container", "bound"}
          /\ Append(obj.path, s) \in DOMAIN ns
  THEN [kind |-> ns[Append(obj.path, s)].kind, path |-> Append(obj.path, s)]
  ELSE MissingObj

HasAttr(ns, obj, s) == GetAttr(ns, obj, s).kind # "missing"

\* setattr(obj, s, node) on a container or a callable: the entry is
\* replaced, and what hung below the old entry goes with it.
SetAttr(ns, obj, s, node) ==
  LET p == Append(obj.path, s)
      keep == {q \in DOMAIN ns : ~IsPrefix(p, q)}
  IN [q \in keep \cup {p} |-> IF q = p THEN node ELSE ns[q]]

\* setattr on a builtin method raises AttributeError.
CanSetAttr(obj) == obj.kind \in {"container", "bound"}

RECURSIVE Walk(_, _, _)
\* while len(name_parts) > 1: create nested objects as needed
Walk(ns, target, parts) ==
  IF Len(parts) <= 1
  THEN [ns |-> ns, target |-> target, err |-> FALSE]
  ELSE LET first == parts[1] IN
       IF ~HasAttr(ns, target, first)
       THEN IF ~CanSetAttr(target)
            THEN [ns |-> ns, target |-> target, err |-> TRUE]
            ELSE LET ns1 == SetAttr(ns, target, first, ContainerNode)
                 IN Walk(ns1, GetAttr(ns1, target, first), Tail(parts))
       ELSE Walk(ns, GetAttr(ns, target, first), Tail(parts))

\* One pass of the loop body for a signature that is not hidden.
AttachOne(ns, name) ==
  LET w == Walk(ns, RootObj, name)
  IN IF w.err \/ ~CanSetAttr(w.target)
     THEN [ns |-> w.ns, err |-> TRUE]
     ELSE [ns |-> SetAttr(w.ns, w.target, name[Len(name)], BoundNode(name)),
           err |-> FALSE]

RECURSIVE AttachLoop(_, _, _)
\* for name, func in items: st is [ns, func, err]
AttachLoop(items, signatures, st) ==
  IF items = <<>> \/ st.err THEN st
  ELSE LET name == Head(items)
           hidden == signatures[name].hidden
           r == IF hidden THEN [ns |-> st.ns, err |-> FALSE]
                ELSE AttachOne(st.ns, name)
       IN AttachLoop(Tail(items), signatures,
                     [ns |-> r.ns, func |-> name, err |-> r.err])

\* Every callable made by the loop calls whatever func holds when the loop
\* is over.
CloseOver(ns, func) ==
  [p \in DOMAIN ns |->
     IF ns[p].kind = "bound" /\ ns[p].func = <<>>
     THEN [ns[p] EXCEPT !.func = func] ELSE ns[p]]

\* items.sort(key=lambda x: len(x[0])): the orders of the unbound names,
\* shortest first; names of one length stay in the dict's arbitrary order.
SortedItems(S) ==
  {s \in [1..Cardinality(S) -> S] :
     /\ \A i, j \in 1..Cardinality(S) : i # j => s[i] # s[j]
     /\ \A i, j \in 1..Cardinality(S) :
          i < j => StrLen(s[i]) <= StrLen(s[j])}

\* _InitializeUnboundMethods, given the order the sort left the items in.
_InitializeUnboundMethods(items, signatures, ns) ==
  LET st == AttachLoop(items, signatures,
                       [ns |-> ns, func |-> <<>>, err |-> FALSE])
  IN [ns |-> CloseOver(st.ns, st.func), err |-> st.err]

\* Following attribute access from Algorithms along a dotted name.
RECURSIVE Reach(_, _, _)
Reach(ns, obj, parts) ==
  IF parts = <<>> THEN obj
  ELSE Reach(ns, GetAttr(ns, obj, parts[1]), Tail(parts))

(***************************************************************************)
(* Initialize and Reset.                                                   *)
(***************************************************************************)
\* The last operation, and whether an Initialize now starts from a module
\* nothing was initialized in since it was loaded or reset.
LastOp == IF ops = <<>> THEN "none" ELSE ops[Len(ops)]
Fresh == LastOp # "I"

\* Initialize has already run twice with no Reset between.  The model
\* follows one such re-initialization; a further one repeats it.
Reinitialized == Len(ops) >= 2 /\ ops[Len(ops) - 1] = "I" /\ LastOp = "I"

NoPromote == [kind |-> "none"]
NoCtor == [kind |-> "none"]

Init ==
  /\ data = [initialized |-> FALSE]
  /\ api = EmptyMap
  /\ claimed = {}
  /\ members = [k \in Importers |-> {}]
  /\ globalsNames = BaseGlobals
  /\ generatedClasses = {}
  /\ Algorithms = EmptyMap
  /\ initErr = FALSE
  /\ ops = <<>>
  /\ preGlobals = BaseGlobals
  /\ dropped = {}
  /\ hasDateutil = TRUE
  /\ pcall = NoPromote
  /\ ccall = NoCtor

\* Initialize(): data.initialize, ApiFunction.initialize (the catalog c is
\* what the backend returns), the hand-written classes' initialize,
\* _InitializeGeneratedClasses, _InitializeUnboundMethods.
Initialize(c) ==
  /\ Len(ops) < MaxOps
  /\ Fresh \/ (~Reinitialized /\ Cardinality(DOMAIN c) <= MaxReinit)
  /\ LET mem1 == InitClasses(c, members)
         cl1 == claimed \cup ClaimedByClasses(c, Importers)
         want == Want(allSignatures(c), globalsNames)
         mem2 == MakeClasses(c, mem1, want)
         cl2 == cl1 \cup ClaimedByClasses(c, want)
     IN /\ data' = [initialized |-> TRUE]
        /\ api' = c
        /\ members' = mem2
        /\ claimed' = cl2
        /\ globalsNames' = globalsNames \cup want
        /\ generatedClasses' = generatedClasses \cup want
        /\ \E items \in SortedItems(unboundFunctions(c, cl2)) :
             LET r == _InitializeUnboundMethods(items, c, Algorithms)
             IN /\ Algorithms' = r.ns
                /\ initErr' = r.err
  /\ ops' = Append(ops, "I")
  /\ preGlobals' = globalsNames
  /\ pcall' = NoPromote
  /\ ccall' = NoCtor
  /\ UNCHANGED <<dropped, hasDateutil>>

\* data.reset()
DataReset(d) == [initialized |-> FALSE]

\* _ResetGeneratedClasses with the del forgotten.
ResetKeepClasses(globs, gen) == globs

\* _ResetGeneratedClasses: del globals()[name] for every generated name
ResetGlobals(globs, gen) == globs \ gen

\* Reset with the old namespace kept.
ResetNamespaceKeep(ns) == ns

\* global Algorithms; Algorithms = _AlgorithmsContainer()
ResetNamespace(ns) == EmptyMap

\* Reset()
Reset ==
  /\ Len(ops) < MaxOps
  /\ data' = DataReset(data)
  /\ api' = EmptyMap
  /\ claimed' = {}
  /\ members' = [k \in Importers |-> {}]
  /\ globalsNames' = ResetGlobals(globalsNames, generatedClasses)
  /\ generatedClasses' = {}
  /\ Algorithms' = ResetNamespace(Algorithms)
  /\ initErr' = FALSE
  /\ ops' = Append(ops, "R")
  /\ dropped' = generatedClasses
  /\ pcall' = NoPromote
  /\ ccall' = NoCtor
  /\ UNCHANGED <<preGlobals, hasDateutil>>

(***************************************************************************)
(* Values.  A value is [type, func, args]: its class, and for a computed   *)
(* node the algorithm it calls and its arguments, flattened to strings.  A *)
(* Python string is a value of type "str" whose args are its dot-separated *)
(* segments.                                                               *)
(***************************************************************************)
Val(t, f, a) == [type |-> t, func |-> f, args |-> a]

None == Val("None", <<>>, <<>>)
Str(segs) == Val("str", <<>>, segs)
Num == Val("number", <<>>, <<"5">>)
PlainObj == Val("object", <<>>, <<"{}">>)
Node == Val("ComputedObject", <<"ns", "op">>, <<>>)
ImageInst == Val("Image", <<"Image">>, <<"number", "(", "5", ")">>)
FeatureInst == Val("Feature", <<"Feature">>, <<"object", "(", "{}", ")">>)
CollectionInst ==
  Val("FeatureCollection", <<"FeatureCollection">>, <<"str", "(", "t", ")">>)
FooInst == Val("Foo", <<"Foo", "bar">>, <<>>)

Flat(v) == <<v.type>> \o v.func \o <<"(">> \o v.args \o <<")">>

RECURSIVE FlatAll(_)
FlatAll(vs) == IF vs = <<>> THEN <<>> ELSE Flat(Head(vs)) \o FlatAll(Tail(vs))

PlainTypes == {"None", "str", "number", "object", "datetime", "ApiFunction"}

\* isinstance(v, ComputedObject): the wrappers and the generated classes
\* all derive from ComputedObject.
IsComputedObject(v) == v.type \notin PlainTypes

\* isinstance(v, Collection)
IsCollection(v) == v.type \in {"ImageCollection", "FeatureCollection"}

\* isinstance(v, numbers.Number), isinstance(v, basestring)
IsNumber(v) == v.type = "number"
IsString(v) == v.type = "str"

\* The strings dateutil.parser.parse accepts.
DateStrings == {<<"2020-01-01">>}

Ret(v) == [val |-> v, err |-> "", calls |-> <<>>]
Raise(e, calls) == [val |-> None, err |-> e, calls |-> calls]

\* K(arg) for a hand-written class K: an instance of K is taken as it is.
New(cls, arg) ==
  [val |-> IF arg.type = cls THEN arg ELSE Val(cls, <<cls>>, Flat(arg)),
   err |-> "",
   calls |-> << <<"new", cls>> >>]

RECURSIVE _Promote(_, _)

\* ApiFunction.call_(name, *args): the node for the call, cast to the
\* signature's return type by the registered promoter.
call_(name, args) ==
  IF name \notin DOMAIN api
  THEN Raise("LookupError", << <<"call_">> \o name >>)
  ELSE LET r == _Promote(Val("ComputedObject", name, FlatAll(args)),
                         api[name].returns)
       IN [r EXCEPT !.calls = << <<"call_">> \o name >> \o r.calls]

\* ApiFunction.lookup(name)
lookup(name) ==
  IF name \notin DOMAIN api
  THEN Raise("LookupError", << <<"lookup">> \o name >>)
  ELSE [val |-> Val("ApiFunction", name, <<>>), err |-> "",
        calls |-> << <<"lookup">> \o name >>]

\* init(self, *args) of the class _MakeClass(name) makes: the test reads
\* args[0] before it looks at len(args).
init(name, args) ==
  IF Len(args) = 0 THEN Raise("IndexError", <<>>)
  ELSE IF IsComputedObject(args[1]) /\ Len(args) = 1
  THEN Ret(Val(name, args[1].func, args[1].args))
  ELSE LET r == call_(<<name>>, args)
       IN IF r.err # "" THEN r
          ELSE [r EXCEPT !.val = Val(name, r.val.func, r.val.args)]

\* hasattr(cls, s) for a string s: a member imported into the class
HasMember(klass, arg) ==
  /\ klass \in DOMAIN members
  /\ Len(arg.args) = 1
  /\ <<klass, arg.args[1]>> \in members[klass]

\* cls(arg) for the class bound to a module-level name
Construct1(klass, arg) ==
  IF klass \in generatedClasses THEN init(klass, <<arg>>) ELSE New(klass, arg)

\* isinstance(arg, cls)
IsInstance(arg, klass) ==
  IF klass = "ComputedObject" THEN IsComputedObject(arg)
  ELSE IF klass = "Collection" THEN IsCollection(arg)
  ELSE arg.type = klass

\* The last rule with globals()[klass] read before klass is looked for.
PromoteRegisteredNoCheck(arg, klass) ==
  IF klass \notin globalsNames THEN Raise("KeyError", <<>>)
  ELSE IF IsInstance(arg, klass) THEN Ret(arg)
  ELSE Construct1(klass, arg)

\* elif klass in globals(): ... else: return arg
PromoteRegistered(arg, klass) ==
  IF klass \in globalsNames
  THEN IF klass \notin ExistingClassNames \cup generatedClasses
       THEN Raise("TypeError", <<>>)
       ELSE IF IsInstance(arg, klass) THEN Ret(arg)
       ELSE IF IsString(arg)
       THEN IF ~HasMember(klass, arg)
            THEN Raise("EEException:UnknownAlgorithm", <<>>)
            ELSE call_(<<klass, arg.args[1]>>, <<>>)
       ELSE Construct1(klass, arg)
  ELSE Ret(arg)

\* The rules of _Promote after the test for None.
PromoteRules(arg, klass) ==
  IF klass = "Image" THEN New("Image", arg)
  ELSE IF klass = "ImageCollection" THEN New("ImageCollection", arg)
  ELSE IF klass \in {"Feature", "EEObject"}
  THEN IF IsCollection(arg)
       THEN LET g == call_(<<"Collection", "geometry">>, <<arg>>)
            IN IF g.err # "" THEN g
               ELSE LET f == call_(<<"Feature">>, <<g.val>>)
                    IN [f EXCEPT !.calls = g.calls \o f.calls]
       ELSE IF klass = "EEObject" /\ arg.type = "Image" THEN Ret(arg)
       ELSE New("Feature", arg)
  ELSE IF klass = "Geometry"
  THEN IF IsCollection(arg)
       THEN call_(<<"Collection", "geometry">>, <<arg>>)
       ELSE New("Geometry", arg)
  ELSE IF klass \in {"FeatureCollection", "EECollection", "Collection"}
  THEN IF IsCollection(arg) THEN Ret(arg)
       ELSE New("FeatureCollection", arg)
  ELSE IF klass = "Filter" THEN New("Filter", arg)
  ELSE IF klass = "ErrorMargin" /\ IsNumber(arg)
  THEN call_(<<"ErrorMargin">>, <<arg, Str(<<"meters">>)>>)
  ELSE IF klass = "Algorithm" /\ IsString(arg) THEN lookup(arg.args)
  ELSE IF klass = "Date"
  THEN IF IsString(arg)
       THEN IF ~hasDateutil THEN Raise("EEException:dateutil", <<>>)
            ELSE IF arg.args \notin DateStrings
            THEN Raise("ValueError", << <<"parse">> >>)
            ELSE [val |-> Val("datetime", <<>>, <<"parse">> \o arg.args),
                  err |-> "", calls |-> << <<"parse">> >>]
       ELSE IF IsNumber(arg)
       THEN [val |-> Val("datetime", <<>>, <<"fromtimestamp">> \o arg.args),
             err |-> "", calls |-> << <<"fromtimestamp">> >>]
       ELSE Ret(arg)
  ELSE IF klass = "Dictionary"
  THEN IF klass \notin globalsNames THEN Ret(arg)
       ELSE IF IsInstance(arg, klass) THEN Ret(arg)
       ELSE IF IsComputedObject(arg) THEN Construct1(klass, arg)
       ELSE Ret(arg)
  ELSE IF klass = "String"
  THEN IF IsString(arg) \/ IsComputedObject(arg) THEN New("String", arg)
       ELSE Ret(arg)
  ELSE PromoteRegistered(arg, klass)

\* _Promote with the test for None forgotten.
PromoteNoNoneTest(arg, klass) == PromoteRules(arg, klass)

\* _Promote(arg, klass)
_Promote(arg, klass) ==
  IF arg = None THEN Ret(arg) ELSE PromoteRules(arg, klass)

(***************************************************************************)
(* Calls of the promoter and of a generated class's constructor.           *)
(***************************************************************************)
KlassUniverse ==
  {"Image", "ImageCollection", "Feature", "EEObject", "Geometry",
   "FeatureCollection", "Filter", "ErrorMargin", "Algorithm", "Date",
   "Dictionary", "String", "Foo", "Number", "Algorithms"}

ArgUniverse ==
  {None, Str(<<"make">>), Str(<<"nope">>), Str(<<"Foo", "make">>),
   Str(<<"2020-01-01">>), Num, PlainObj, Node, ImageInst, FeatureInst,
   CollectionInst, FooInst}

\* A value of a generated class exists only while the class does.
Exists(v) ==
  v.type \in PlainTypes \cup ExistingClassNames \cup generatedClasses

CtorVals == {Num, Node, Str(<<"nope">>)}

CtorArgs == UNION {[1..k -> CtorVals] : k \in 0..MaxArgs}

CallCatalogs ==
  {EmptyMap,
   (<<"Foo", "bar">> :> Sig("Foo", FALSE)) @@
   (<<"Foo", "make">> :> Sig("Image", FALSE)) @@
   (<<"Foo">> :> Sig("Foo", FALSE)) @@
   (<<"Dictionary", "make">> :> Sig("Dictionary", FALSE)),
   (<<"Foo", "bar">> :> Sig("Foo", FALSE)) @@
   (<<"Foo", "make">> :> Sig("Foo", FALSE)),
   (<<"ErrorMargin">> :> Sig("ErrorMargin", FALSE)) @@
   (<<"Collection", "geometry">> :> Sig("Geometry", FALSE)) @@
   (<<"Feature">> :> Sig("Feature", FALSE))}

\* No call has been made since the last Initialize or Reset.  A call changes
\* nothing that a later call reads, so one call from each state of the
\* library shows every result a call can have.
Idle == pcall = NoPromote /\ ccall = NoCtor

\* A call _Promote(v, k)
Promote(v, k) ==
  /\ Idle
  /\ Exists(v)
  /\ pcall' = [kind |-> "promote", arg |-> v, klass |-> k,
               out |-> _Promote(v, k), again |-> Ret(None)]
  /\ ccall' = NoCtor
  /\ UNCHANGED <<data, api, claimed, members, globalsNames,
                 generatedClasses, Algorithms, initErr, ops, preGlobals,
                 dropped, hasDateutil>>

\* The result of the last call promoted again to the same type
PromoteAgain ==
  /\ pcall.kind = "promote"
  /\ pcall.out.err = ""
  /\ pcall' = [pcall EXCEPT !.kind = "again",
                            !.again = _Promote(pcall.out.val, pcall.klass)]
  /\ UNCHANGED <<data, api, claimed, members, globalsNames,
                 generatedClasses, Algorithms, initErr, ops, preGlobals,
                 dropped, hasDateutil, ccall>>

\* A call N(*args) of the generated class N
Construct(N, args) ==
  /\ Idle
  /\ N \in generatedClasses
  /\ ccall' = [kind |-> "ctor", cls |-> N, args |-> args,
               out |-> init(N, args)]
  /\ pcall' = NoPromote
  /\ UNCHANGED <<data, api, claimed, members, globalsNames,
                 generatedClasses, Algorithms, initErr, ops, preGlobals,
                 dropped, hasDateutil>>

InitCalls ==
  /\ data = [initialized |-> FALSE]
  /\ api = EmptyMap
  /\ claimed = {}
  /\ members = [k \in Importers |-> {}]
  /\ globalsNames = BaseGlobals
  /\ generatedClasses = {}
  /\ Algorithms = EmptyMap
  /\ initErr = FALSE
  /\ ops = <<>>
  /\ preGlobals = BaseGlobals
  /\ dropped = {}
  /\ hasDateutil \in BOOLEAN
  /\ pcall = NoPromote
  /\ ccall = NoCtor

NextCalls ==
  \/ \E c \in CallCatalogs : Initialize(c)
  \/ Reset
  \/ \E v \in ArgUniverse, k \in KlassUniverse : Promote(v, k)
  \/ PromoteAgain
  \/ \E N \in generatedClasses, args \in CtorArgs : Construct(N, args)

SpecCalls == InitCalls /\ [][NextCalls]_vars

(***************************************************************************)
(* Properties.                                                             *)
(***************************************************************************)
\* An Initialize that began with nothing initialized has just run.
FreshInit ==
  /\ LastOp = "I"
  /\ Len(ops) = 1 \/ ops[Len(ops) - 1] = "R"

\* The classes a catalog calls for in a freshly loaded module.
Derived(cat) ==
  ((NamespaceRoots(cat) \cap ReturnTypes(cat)) \ BaseGlobals) \ blacklist

Visible(cat) == [n \in {m \in DOMAIN cat : ~cat[m].hidden} |-> cat[n]]

BoundPaths == {p \in DOMAIN Algorithms : Algorithms[p].kind = "bound"}

\* C1: after Reset no generated class is bound in the module namespace, the
\* list of generated classes is empty and Algorithms is an empty container;
\* after the Initialize that follows, the generated classes, the module
\* namespace and the callables of Algorithms are exactly those the new
\* catalog calls for.
C1_ResetLeavesNoResidue ==
  /\ LastOp = "R" =>
       /\ generatedClasses = {}
       /\ dropped \cap globalsNames = {}
       /\ globalsNames = BaseGlobals
       /\ Algorithms = EmptyMap
  /\ (Len(ops) >= 2 /\ LastOp = "I" /\ ops[Len(ops) - 1] = "R") =>
       /\ generatedClasses = Derived(api)
       /\ globalsNames = BaseGlobals \cup Derived(api)
       /\ DOMAIN members = Importers \cup Derived(api)
       /\ \A p \in BoundPaths : Algorithms[p].sig \in DOMAIN api

C1_Witness ==
  /\ ops = <<"I", "R", "I">>
  /\ dropped = {"Foo"}
  /\ generatedClasses = {}
  /\ api # EmptyMap
  /\ BoundPaths # {}

\* C2: after Initialize a hidden signature has no entry in the Algorithms
\* namespace, is no member of a class, and does not make a class be
\* generated: the generated classes are those the signatures that are not
\* hidden call for.
C2_HiddenYieldsNothing ==
  (FreshInit /\ ~initErr) =>
    /\ \A n \in DOMAIN api : api[n].hidden =>
         /\ \A p \in BoundPaths : Algorithms[p].sig # n
         /\ \A k \in DOMAIN members : n \notin members[k]
    /\ generatedClasses = Derived(Visible(api))

C6_UnboundReachable ==
  LastOp = "I" =>
    /\ ~initErr
    /\ \A n \in unboundFunctions(api, claimed) : ~api[n].hidden =>
         LET o == Reach(Algorithms, RootObj, n)
         IN o.kind = "bound" /\ Algorithms[o.path].sig = n

\* C8 as stated: Reset leaves the backend collaborator's state unchanged.
C8_ResetKeepsBackend == [][ops' = Append(ops, "R") => data' = data]_vars

\* C8, amended: Reset undoes what Initialize built (the registry, the members
\* imported into the hand-written classes, the generated classes, the
\* namespace) and it resets the backend collaborator too.
C8_ResetUndoesInitialize ==
  LastOp = "R" =>
    /\ api = EmptyMap
    /\ claimed = {}
    /\ members = [k \in Importers |-> {}]
    /\ generatedClasses = {}
    /\ globalsNames = BaseGlobals
    /\ Algorithms = EmptyMap
    /\ data = [initialized |-> FALSE]

C8_Witness ==
  /\ ops = <<"I", "R">>
  /\ dropped = {"Foo"}

\* C10: the callable attached for algorithm A calls A, the algorithm whose
\* signature it carries.
C10_CallsItsOwnAlgorithm ==
  \A p \in BoundPaths : Algorithms[p].func = Algorithms[p].sig

\* C3: promoting the result of _Promote(v, T) to T again changes nothing.
C3_Idempotent ==
  (pcall.kind = "again" /\ pcall.again.err = "") =>
    pcall.again.val = pcall.out.val

RuleTargets ==
  {"Image", "ImageCollection", "Feature", "EEObject", "Geometry",
   "FeatureCollection", "EECollection", "Collection", "Filter",
   "ErrorMargin", "Algorithm", "Date", "Dictionary", "String"}

C9_AbsentUnchanged ==
  (pcall.kind # "none" /\ pcall.arg = None) =>
    /\ pcall.out.val = None
    /\ pcall.out.err = ""
    /\ pcall.out.calls = <<>>

C9_Witness ==
  /\ pcall.kind = "promote"
  /\ pcall.arg = None
  /\ pcall.klass = "Image"
  /\ api # EmptyMap

\* C7: N(*args) of a generated class N takes over the node of a single
\* computed argument without calling an algorithm, and in every other case,
\* no argument included, passes all its arguments to the algorithm N.
C7_Constructor ==
  ccall.kind = "ctor" =>
    LET a == ccall.args
        o == ccall.out
    IN IF Len(a) = 1 /\ IsComputedObject(a[1])
       THEN /\ o.err = ""
            /\ o.val = Val(ccall.cls, a[1].func, a[1].args)
            /\ o.calls = <<>>
       ELSE /\ o.err \in {"", "LookupError"}
            /\ o.calls # <<>>
            /\ o.calls[1] = <<"call_", ccall.cls>>
            /\ o.err = "" =>
                 /\ o.val.type = ccall.cls
                 /\ o.val.func = <<ccall.cls>>
                 /\ o.val.args = FlatAll(a)

Next ==
  \/ \E c \in Catalogs : Initialize(c)
  \/ Reset

Spec == Init /\ [][Next]_vars

====
